---- MODULE Spec2Model ----
(***************************************************************************)
(* A model of ais_downloader.py: the NOAA AIS batch ingestion pipeline.    *)
(*                                                                         *)
(* Strings are sequences of one-character strings, so that str comparison, *)
(* substring search, endswith, split("/") and splitlines are computed the  *)
(* way Python computes them.  The local filesystem (the ledger file, the   *)
(* scratch archive files in the working directory, the per-year extract    *)
(* folder), the bucket and the remote listing pages are state variables.   *)
(* Each process_file call is a sequence of steps, one per system call or   *)
(* external call, interleaved with the steps of the other calls that the   *)
(* worker pool runs at the same time.                                      *)
(***************************************************************************)
EXTENDS Naturals, Sequences, FiniteSets, TLC

VARIABLES
    args,        \* [year_start, year_end, resume_from]: the parsed command line
    web,         \* year -> the hrefs of the <a href> tags of the year's listing page
    archive,     \* zip name -> number of member files of the remote archive
    run,         \* which invocation of the program this is (1, 2, ...)
    year,        \* the loop variable of __main__
    phase,       \* where process_year is: "list", "pool", then "done" / "crashed"
    file_urls,   \* the list process_year got from list_files
    unit,        \* one record per element of file_urls: the process_file call's locals
    ledger,      \* processed_files.txt: [exists, text]
    cwd,         \* scratch archive files in ".": zip name -> "good" | "bad"
    unzipped,    \* year -> [exists, files]: the directory ./unzipped/<year>/
    bucket,      \* the objects of the bucket: <<year, content file>> for raw_data/<year>/<file>
    fetches,     \* download_file calls made by the current run
    faults,      \* external failures (network, archive, storage) so far
    marked,      \* names for which mark_file_processed has returned
    partial      \* <<run, name>>: in that run the upload of a content file of the
                 \* archive raised after the same call had uploaded another of them

vars == <<args, web, archive, run, year, phase, file_urls, unit, ledger, cwd,
          unzipped, bucket, fetches, faults, marked, partial>>

-----------------------------------------------------------------------------
(* Bounds of the model.                                                    *)

MaxLinks == 3       \* longest listing page of the list_files specification
MaxFiles == 2       \* archives listed per year in the pipeline specification
MaxFaults == 1      \* external failures injected over the whole behaviour
MaxRuns == 2        \* invocations of the program, one after the other
MaxYears == 2       \* years from year_start to year_end in the multi-year specification
MaxPoolFiles == 5   \* archives listed for the year in the worker-pool specification

(* Program constants.                                                      *)

PoolSize == 4       \* multiprocessing.Pool(processes=4)

-----------------------------------------------------------------------------
(* Strings.                                                                *)

NL == "\n"

\* The characters the model uses, in code point order.
Alphabet == <<NL, ".", "/", "0", "1", "2", "3", "4", "5", "6", "7", "8", "9",
              "a", "b", "c", "i", "p", "t", "x", "z">>

Ord(c) == CHOOSE i \in 1..Len(Alphabet) : Alphabet[i] = c

\* Python's a > b on str: code point order, a proper prefix sorts first.
RECURSIVE StrGT(_, _)
StrGT(a, b) ==
    IF a = <<>> THEN FALSE
    ELSE IF b = <<>> THEN TRUE
    ELSE IF Head(a) = Head(b) THEN StrGT(Tail(a), Tail(b))
    ELSE Ord(Head(a)) > Ord(Head(b))

StartsWith(s, pre) ==
    Len(pre) <= Len(s) /\ SubSeq(s, 1, Len(pre)) = pre

\* s.endswith(suf)
EndsWith(s, suf) ==
    Len(suf) <= Len(s) /\ SubSeq(s, Len(s) - Len(suf) + 1, Len(s)) = suf

\* sub in s
RECURSIVE Contains(_, _)
Contains(s, sub) ==
    IF StartsWith(s, sub) THEN TRUE
    ELSE IF s = <<>> THEN FALSE
    ELSE Contains(Tail(s), sub)

\* s.split("/")[-1]
RECURSIVE LastSegment(_)
LastSegment(s) ==
    IF s = <<>> THEN <<>>
    ELSE IF s[Len(s)] = "/" THEN <<>>
    ELSE Append(LastSegment(SubSeq(s, 1, Len(s) - 1)), s[Len(s)])

Digits == <<"0", "1", "2", "3", "4", "5", "6", "7", "8", "9">>

\* str(n) for an int n >= 0
RECURSIVE IntToStr(_)
IntToStr(n) ==
    IF n < 10 THEN <<Digits[n + 1]>>
    ELSE Append(IntToStr(n \div 10), Digits[(n % 10) + 1])

\* text.splitlines(): the lines without their line breaks; a last line with
\* no line break counts, an empty tail does not.
RECURSIVE SplitLinesFrom(_, _)
SplitLinesFrom(text, line) ==
    IF text = <<>> THEN (IF line = <<>> THEN <<>> ELSE <<line>>)
    ELSE IF Head(text) = NL THEN <<line>> \o SplitLinesFrom(Tail(text), <<>>)
    ELSE SplitLinesFrom(Tail(text), Append(line, Head(text)))

splitlines(text) == SplitLinesFrom(text, <<>>)

Range(s) == {s[i] : i \in DOMAIN s}

-----------------------------------------------------------------------------
(* list_files                                                              *)

ZipExt == <<".", "z", "i", "p">>

\* BASE_URL.format(year); the host and path prefix are abbreviated to "/a/".
BASE_URL(y) == <<"/", "a", "/">> \o IntToStr(y) \o <<"/">>

\* [url + a['href'] for a in soup.find_all('a', href=True) if a['href'].endswith('.zip')]
ZipLinksAnywhere(y, page) ==
    LET IsZip(href) == Contains(href, ZipExt)
        hrefs == SelectSeq(page, IsZip)
    IN  [i \in 1..Len(hrefs) |-> BASE_URL(y) \o hrefs[i]]

ZipLinks(y, page) ==
    LET IsZip(href) == EndsWith(href, ZipExt)
        hrefs == SelectSeq(page, IsZip)
    IN  [i \in 1..Len(hrefs) |-> BASE_URL(y) \o hrefs[i]]

\* if RESUME_FROM and str(year) in RESUME_FROM
Resuming(y, resume_from) ==
    /\ resume_from.given
    /\ resume_from.val # <<>>
    /\ Contains(resume_from.val, IntToStr(y))

\* f.split("/")[-1] > RESUME_FROM
ResumeKeepsMut(f, resume_from) ==
    ~ StrGT(resume_from.val, LastSegment(f))

ResumeKeeps(f, resume_from) ==
    StrGT(LastSegment(f), resume_from.val)

list_files(y, page, resume_from) ==
    LET Keep(f) == ResumeKeeps(f, resume_from)
    IN  IF Resuming(y, resume_from)
        THEN SelectSeq(ZipLinks(y, page), Keep)
        ELSE ZipLinks(y, page)

-----------------------------------------------------------------------------
(* The ledger file                                                         *)

\* is_file_processed, on the file as it is now
is_file_processed(file_name) ==
    IF ledger.exists
    THEN file_name \in Range(splitlines(ledger.text))
    ELSE FALSE

\* mark_file_processed's f.write(file_name + "\n") on a file opened with "a":
\* the line goes to the end of the file as it is when it is written (O_APPEND),
\* whatever the position was when the file was opened.
AppendLineAtPos(text, pos, file_name) ==
    LET line == file_name \o <<NL>>
    IN  SubSeq(text, 1, pos) \o line \o SubSeq(text, pos + Len(line) + 1, Len(text))

AppendLineNoBreak(text, pos, file_name) ==
    text \o file_name

AppendLine(text, pos, file_name) ==
    text \o file_name \o <<NL>>

-----------------------------------------------------------------------------
(* The remote site of the pipeline specification                           *)

Letters == <<"a", "b", "c", "i", "p", "t", "x">>

\* The k-th archive link of year y's listing page: "<y><letter>.zip"
Href(y, k) == IntToStr(y) \o <<Letters[k]>> \o ZipExt

Page(y) == [k \in 1..MaxFiles |-> Href(y, k)]

\* The content files of an archive: <<zip name, k>> is its k-th member.
Members(zip_name) == {<<zip_name, k>> : k \in 1..archive[zip_name]}

-----------------------------------------------------------------------------
(* process_file: one unit of work, step by step                            *)

Units == DOMAIN unit

zip_name(t) == LastSegment(file_urls[t])

\* f"./{zip_name}": the key of the unit's scratch archive file in cwd
local_zip_path(t) == <<".", "/">> \o zip_name(t)

\* f"./unzipped/{year}/" ("unzipped" abbreviated to "u"): the directory that
\* unzipped[year] stands for
extract_folder(t) == <<".", "/", "u", "/">> \o IntToStr(year) \o <<"/">>

\* sent counts the content files of the unit's own archive that the running
\* loop of line 109 has uploaded.
NewUnit == [pc |-> "queued", failed |-> FALSE, faulted |-> FALSE, iter |-> {}, fpos |-> 0,
            sent |-> 0]

Terminal == {"skipped", "returned", "raised"}

InFlight(t) == unit[t].pc \notin (Terminal \cup {"queued"})

\* From os.makedirs to the end of the finally block: the unit uses its scratch paths.
UsesScratch(t) == InFlight(t) /\ unit[t].pc \notin {"check", "makedirs"}

\* An exception raised inside the try block: the except clause reports it, then
\* the finally block runs.
CaughtThenMarks(u, external) ==
    [u EXCEPT !.pc = "mark_open", !.failed = TRUE,
              !.faulted = u.faulted \/ external, !.iter = {}, !.sent = 0]

Caught(u, external) ==
    [u EXCEPT !.pc = "exists_zip", !.failed = TRUE,
              !.faulted = u.faulted \/ external, !.iter = {}, !.sent = 0]

\* An exception raised outside the try block or inside the finally block
\* leaves process_file.
Escapes(u) == [u EXCEPT !.pc = "raised", !.iter = {}, !.sent = 0]

\* pool.starmap hands the tasks out in listing order, to at most PoolSize workers
\* (chunksize is 1 for a listing of up to 4 * PoolSize links).
DispatchNoLimit(t) ==
    /\ phase = "pool"
    /\ unit[t].pc = "queued"
    /\ \A s \in Units : s < t => unit[s].pc # "queued"
    /\ unit' = [unit EXCEPT ![t].pc = "check"]
    /\ UNCHANGED <<partial, args, web, archive, run, year, phase, file_urls, ledger, cwd,
                   unzipped, bucket, fetches, faults, marked>>

Dispatch(t) ==
    /\ phase = "pool"
    /\ unit[t].pc = "queued"
    /\ \A s \in Units : s < t => unit[s].pc # "queued"
    /\ Cardinality({s \in Units : InFlight(s)}) < PoolSize
    /\ unit' = [unit EXCEPT ![t].pc = "check"]
    /\ UNCHANGED <<partial, args, web, archive, run, year, phase, file_urls, ledger, cwd,
                   unzipped, bucket, fetches, faults, marked>>

\* if is_file_processed(zip_name): return
CheckLedgerAfterMakeDirs(t) ==
    /\ unit[t].pc = "check"
    /\ unzipped' = [unzipped EXCEPT ![year].exists = TRUE]
    /\ unit' = [unit EXCEPT ![t].pc =
                    IF is_file_processed(zip_name(t)) THEN "skipped" ELSE "download"]
    /\ UNCHANGED <<partial, args, web, archive, run, year, phase, file_urls, ledger, cwd,
                   bucket, fetches, faults, marked>>

CheckLedger(t) ==
    /\ unit[t].pc = "check"
    /\ unit' = [unit EXCEPT ![t].pc =
                    IF is_file_processed(zip_name(t)) THEN "skipped" ELSE "makedirs"]
    /\ UNCHANGED <<partial, args, web, archive, run, year, phase, file_urls, ledger, cwd,
                   unzipped, bucket, fetches, faults, marked>>

\* os.makedirs(extract_folder, exist_ok=True)
MakeDirs(t) ==
    /\ unit[t].pc = "makedirs"
    /\ unzipped' = [unzipped EXCEPT ![year].exists = TRUE]
    /\ unit' = [unit EXCEPT ![t].pc = "download"]
    /\ UNCHANGED <<partial, args, web, archive, run, year, phase, file_urls, ledger, cwd,
                   bucket, fetches, faults, marked>>

WriteZip(name, kind) == [n \in DOMAIN cwd \cup {name} |-> IF n = name THEN kind ELSE cwd[n]]

\* download_file(file_url, local_zip_path).  "ok": the archive arrives whole.
\* "refused": requests.get raises before the file is opened.  "broken": the
\* stream raises after the file was opened.  "non2xx": the server answers with
\* an error page, which is written to the file without an exception.
Download(t) ==
    /\ unit[t].pc = "download"
    /\ \E outcome \in {"ok", "refused", "broken", "non2xx"} :
          /\ outcome # "ok" => faults < MaxFaults
          /\ faults' = IF outcome = "ok" THEN faults ELSE faults + 1
          /\ cwd' = CASE outcome = "ok" -> WriteZip(zip_name(t), "good")
                      [] outcome = "refused" -> cwd
                      [] OTHER -> WriteZip(zip_name(t), "bad")
          /\ unit' = [unit EXCEPT ![t] =
                        CASE outcome \in {"refused", "broken"} -> Caught(@, TRUE)
                          [] outcome = "non2xx" -> [@ EXCEPT !.pc = "unzip", !.faulted = TRUE]
                          [] OTHER -> [@ EXCEPT !.pc = "unzip"]]
    /\ fetches' = fetches + 1
    /\ UNCHANGED <<partial, args, web, archive, run, year, phase, file_urls, ledger,
                   unzipped, bucket, marked>>

\* zipfile.ZipFile(zip_path, 'r'): a missing file or one that is no archive raises.
OpenZip(t) ==
    /\ unit[t].pc = "unzip"
    /\ unit' = [unit EXCEPT ![t] =
                  IF zip_name(t) \in DOMAIN cwd /\ cwd[zip_name(t)] = "good"
                  THEN [@ EXCEPT !.pc = IF Members(zip_name(t)) = {} THEN "listdir" ELSE "extract",
                                 !.iter = Members(zip_name(t))]
                  ELSE Caught(@, FALSE)]
    /\ UNCHANGED <<partial, args, web, archive, run, year, phase, file_urls, ledger, cwd,
                   unzipped, bucket, fetches, faults, marked>>

\* zip_ref.extractall(extract_folder): one member per step, in archive order;
\* extraction creates the folder again when it is missing.  A full disk raises.
Extract(t) ==
    /\ unit[t].pc = "extract"
    /\ LET f == CHOOSE g \in unit[t].iter : \A h \in unit[t].iter : g[2] <= h[2]
           rest == unit[t].iter \ {f}
       IN \/ /\ unzipped' = [unzipped EXCEPT ![year] =
                                [exists |-> TRUE, files |-> @.files \cup {f}]]
             /\ unit' = [unit EXCEPT ![t].iter = rest,
                                     ![t].pc = IF rest = {} THEN "listdir" ELSE "extract"]
             /\ faults' = faults
          \/ /\ faults < MaxFaults
             /\ faults' = faults + 1
             /\ unit' = [unit EXCEPT ![t] = Caught(@, TRUE)]
             /\ unzipped' = unzipped
    /\ UNCHANGED <<partial, args, web, archive, run, year, phase, file_urls, ledger, cwd,
                   bucket, fetches, marked>>

\* for csv_file in os.listdir(extract_folder): the listing is read once
ListDir(t) ==
    /\ unit[t].pc = "listdir"
    /\ unit' = [unit EXCEPT ![t] =
                  IF unzipped[year].exists
                  THEN [@ EXCEPT !.iter = unzipped[year].files,
                                 !.pc = IF unzipped[year].files = {} THEN "mark_open" ELSE "upload"]
                  ELSE Caught(@, FALSE)]
    /\ UNCHANGED <<partial, args, web, archive, run, year, phase, file_urls, ledger, cwd,
                   unzipped, bucket, fetches, faults, marked>>

\* upload_to_gcs(local_csv_path, gcs_csv_path) for the next listed file (os.listdir
\* gives no order): a file that is gone raises, and so does a storage failure.
Upload(t) ==
    /\ unit[t].pc = "upload"
    /\ \E f \in unit[t].iter :
         LET rest == unit[t].iter \ {f}
             own == f \in Members(zip_name(t))
             raised == IF own /\ unit[t].sent > 0
                       THEN partial \cup {<<run, zip_name(t)>>}
                       ELSE partial
         IN \/ /\ f \in unzipped[year].files
               /\ bucket' = bucket \cup {<<year, f>>}
               /\ unit' = [unit EXCEPT ![t].iter = rest,
                                       ![t].sent = IF rest = {} THEN 0
                                                   ELSE IF own THEN @ + 1 ELSE @,
                                       ![t].pc = IF rest = {} THEN "mark_open" ELSE "upload"]
               /\ UNCHANGED <<faults, partial>>
            \/ /\ f \notin unzipped[year].files
               /\ unit' = [unit EXCEPT ![t] = Caught(@, FALSE)]
               /\ partial' = raised
               /\ UNCHANGED <<bucket, faults>>
            \/ /\ f \in unzipped[year].files
               /\ faults < MaxFaults
               /\ faults' = faults + 1
               /\ unit' = [unit EXCEPT ![t] = Caught(@, TRUE)]
               /\ partial' = raised
               /\ bucket' = bucket
    /\ UNCHANGED <<args, web, archive, run, year, phase, file_urls, ledger, cwd,
                   unzipped, fetches, marked>>

\* mark_file_processed: open(PROCESSED_FILES_LOG, "a") creates the file
MarkOpen(t) ==
    /\ unit[t].pc = "mark_open"
    /\ ledger' = [ledger EXCEPT !.exists = TRUE]
    /\ unit' = [unit EXCEPT ![t].pc = "mark_write", ![t].fpos = Len(ledger.text)]
    /\ UNCHANGED <<partial, args, web, archive, run, year, phase, file_urls, cwd,
                   unzipped, bucket, fetches, faults, marked>>

\* mark_file_processed: f.write(file_name + "\n") and the close that flushes it
MarkWrite(t) ==
    /\ unit[t].pc = "mark_write"
    /\ ledger' = [ledger EXCEPT !.text = AppendLine(@, unit[t].fpos, zip_name(t))]
    /\ marked' = marked \cup {zip_name(t)}
    /\ unit' = [unit EXCEPT ![t].pc = "exists_zip"]
    /\ UNCHANGED <<partial, args, web, archive, run, year, phase, file_urls, cwd,
                   unzipped, bucket, fetches, faults>>

\* finally: if os.path.exists(local_zip_path)
ExistsZip(t) ==
    /\ unit[t].pc = "exists_zip"
    /\ unit' = [unit EXCEPT ![t].pc =
                    IF zip_name(t) \in DOMAIN cwd THEN "remove_zip" ELSE "clean_list"]
    /\ UNCHANGED <<partial, args, web, archive, run, year, phase, file_urls, ledger, cwd,
                   unzipped, bucket, fetches, faults, marked>>

\* finally: os.remove(local_zip_path)
RemoveZip(t) ==
    /\ unit[t].pc = "remove_zip"
    /\ IF zip_name(t) \in DOMAIN cwd
       THEN /\ cwd' = [n \in DOMAIN cwd \ {zip_name(t)} |-> cwd[n]]
            /\ unit' = [unit EXCEPT ![t].pc = "clean_list"]
       ELSE /\ cwd' = cwd
            /\ unit' = [unit EXCEPT ![t] = Escapes(@)]
    /\ UNCHANGED <<partial, args, web, archive, run, year, phase, file_urls, ledger,
                   unzipped, bucket, fetches, faults, marked>>

\* finally: for file in os.listdir(extract_folder)
CleanList(t) ==
    /\ unit[t].pc = "clean_list"
    /\ unit' = [unit EXCEPT ![t] =
                  IF unzipped[year].exists
                  THEN [@ EXCEPT !.iter = unzipped[year].files,
                                 !.pc = IF unzipped[year].files = {} THEN "rmdir" ELSE "clean_remove"]
                  ELSE Escapes(@)]
    /\ UNCHANGED <<partial, args, web, archive, run, year, phase, file_urls, ledger, cwd,
                   unzipped, bucket, fetches, faults, marked>>

\* finally: os.remove(os.path.join(extract_folder, file))
CleanRemove(t) ==
    /\ unit[t].pc = "clean_remove"
    /\ \E f \in unit[t].iter :
         LET rest == unit[t].iter \ {f}
         IN IF f \in unzipped[year].files
            THEN /\ unzipped' = [unzipped EXCEPT ![year].files = @ \ {f}]
                 /\ unit' = [unit EXCEPT ![t].iter = rest,
                                         ![t].pc = IF rest = {} THEN "rmdir" ELSE "clean_remove"]
            ELSE /\ unzipped' = unzipped
                 /\ unit' = [unit EXCEPT ![t] = Escapes(@)]
    /\ UNCHANGED <<partial, args, web, archive, run, year, phase, file_urls, ledger, cwd,
                   bucket, fetches, faults, marked>>

\* finally: os.rmdir(extract_folder) raises on a missing or non-empty directory
RmDir(t) ==
    /\ unit[t].pc = "rmdir"
    /\ IF unzipped[year].exists /\ unzipped[year].files = {}
       THEN /\ unzipped' = [unzipped EXCEPT ![year].exists = FALSE]
            /\ unit' = [unit EXCEPT ![t].pc = "returned"]
       ELSE /\ unzipped' = unzipped
            /\ unit' = [unit EXCEPT ![t] = Escapes(@)]
    /\ UNCHANGED <<partial, args, web, archive, run, year, phase, file_urls, ledger, cwd,
                   bucket, fetches, faults, marked>>

-----------------------------------------------------------------------------
(* process_year and __main__                                               *)

\* file_urls = list_files(year), then the pool is created
ListYear ==
    /\ phase = "list"
    /\ file_urls' = list_files(year, web[year], args.resume_from)
    /\ unit' = [t \in 1..Len(file_urls') |-> NewUnit]
    /\ phase' = "pool"
    /\ UNCHANGED <<partial, args, web, archive, run, year, ledger, cwd, unzipped, bucket,
                   fetches, faults, marked>>

\* pool.starmap returns when every task has ended, and raises the exception of
\* a task that raised; the for loop of __main__ then goes on to the next year.
EndYearNoWait ==
    /\ phase = "pool"
    /\ IF \E t \in Units : unit[t].pc = "raised"
       THEN phase' = "crashed" /\ year' = year
       ELSE IF year < args.year_end
            THEN phase' = "list" /\ year' = year + 1
            ELSE phase' = "done" /\ year' = year
    /\ UNCHANGED <<partial, args, web, archive, run, file_urls, unit, ledger, cwd, unzipped,
                   bucket, fetches, faults, marked>>

EndYear ==
    /\ phase = "pool"
    /\ \A t \in Units : unit[t].pc \in Terminal
    /\ IF \E t \in Units : unit[t].pc = "raised"
       THEN phase' = "crashed" /\ year' = year
       ELSE IF year < args.year_end
            THEN phase' = "list" /\ year' = year + 1
            ELSE phase' = "done" /\ year' = year
    /\ UNCHANGED <<partial, args, web, archive, run, file_urls, unit, ledger, cwd, unzipped,
                   bucket, fetches, faults, marked>>

\* The program is started again with the same command line; the files and the
\* bucket are as the last run left them, the remote listing has not changed.
NextRun ==
    /\ phase \in {"done", "crashed"}
    /\ run < MaxRuns
    /\ run' = run + 1
    /\ year' = args.year_start
    /\ phase' = "list"
    /\ file_urls' = <<>>
    /\ unit' = <<>>
    /\ fetches' = 0
    /\ UNCHANGED <<partial, args, web, archive, ledger, cwd, unzipped, bucket, faults, marked>>

-----------------------------------------------------------------------------
(* Specifications                                                          *)

NoResume == [given |-> FALSE, val |-> <<>>]

\* What an earlier run that recorded the archives `done` has left: their lines
\* in the ledger, written by mark_file_processed, and their content in the bucket.
RECURSIVE LedgerAfter(_)
LedgerAfter(done) ==
    IF done = <<>> THEN <<>>
    ELSE LET before == LedgerAfter(SubSeq(done, 1, Len(done) - 1))
         IN  AppendLine(before, Len(before), done[Len(done)])

Start(a, w, ar, done) ==
    /\ args = a
    /\ web = w
    /\ archive = ar
    /\ run = 1
    /\ year = a.year_start
    /\ phase = "list"
    /\ file_urls = <<>>
    /\ unit = <<>>
    /\ ledger = [exists |-> done # <<>>, text |-> LedgerAfter(done)]
    /\ cwd = <<>>
    /\ unzipped = [y \in a.year_start..a.year_end |-> [exists |-> FALSE, files |-> {}]]
    /\ bucket = UNION {{<<a.year_start, <<done[i], k>>>> : k \in 1..ar[done[i]]} : i \in DOMAIN done}
    /\ fetches = 0
    /\ faults = 0
    /\ marked = Range(done)
    /\ partial = {}

\* The pipeline on one year whose page lists MaxFiles archives of one content
\* file each.  An earlier run, made when the page listed only the first k of
\* them, has recorded those; k = 0 is the first run ever, with no ledger file.
Init ==
    \E k \in 0..MaxFiles :
        Start([year_start |-> 1, year_end |-> 1, resume_from |-> NoResume],
              [y \in {1} |-> Page(y)],
              [n \in Range(Page(1)) |-> 1],
              SubSeq(Page(1), 1, k))

Next ==
    \/ ListYear
    \/ \E t \in Units : Dispatch(t)
    \/ \E t \in Units : CheckLedger(t)
    \/ \E t \in Units : MakeDirs(t)
    \/ \E t \in Units : Download(t)
    \/ \E t \in Units : OpenZip(t)
    \/ \E t \in Units : Extract(t)
    \/ \E t \in Units : ListDir(t)
    \/ \E t \in Units : Upload(t)
    \/ \E t \in Units : MarkOpen(t)
    \/ \E t \in Units : MarkWrite(t)
    \/ \E t \in Units : ExistsZip(t)
    \/ \E t \in Units : RemoveZip(t)
    \/ \E t \in Units : CleanList(t)
    \/ \E t \in Units : CleanRemove(t)
    \/ \E t \in Units : RmDir(t)
    \/ EndYear

\* One run of the program.
Spec == Init /\ [][Next]_vars

\* The program run MaxRuns times, one run after the other.
NextRerun ==
    \/ Next
    \/ NextRun

SpecRerun == Init /\ [][NextRerun]_vars

\* list_files alone, on the pages, years and resume points of a small pool.
HrefPool ==
    { <<"1", "a">> \o ZipExt, <<"1", "b">> \o ZipExt, <<"2", "a">> \o ZipExt,
      <<"1", "2", "a">> \o ZipExt, <<"x", "/", "1", "c">> \o ZipExt,
      <<"1", "b">>, <<"t", ".", "t", "x", "t">>, <<"1", "a">> \o ZipExt \o <<".", "t">> }

PagePool == UNION {[1..n -> HrefPool] : n \in 0..MaxLinks}

ResumePool ==
    { NoResume, [given |-> TRUE, val |-> <<>>] } \cup
    { [given |-> TRUE, val |-> v] :
        v \in { <<"1", "a">> \o ZipExt, <<"1", "b">> \o ZipExt, <<"1", "b">>,
                <<"1", "2", "a">> \o ZipExt, <<"a", ".", "z", "i", "p">> } }

InitList ==
    \E y \in {1, 2, 12} : \E page \in PagePool : \E r \in ResumePool :
        Start([year_start |-> y, year_end |-> y, resume_from |-> r],
              [yy \in {y} |-> page], <<>>, <<>>)

NextList == ListYear

SpecList == InitList /\ [][NextList]_vars

\* The pipeline over the years 1..MaxYears, each year's page listing two
\* archives of one content file each, starting without a ledger file.
YearPage(y) == <<Href(y, 1), Href(y, 2)>>

InitYears ==
    Start([year_start |-> 1, year_end |-> MaxYears, resume_from |-> NoResume],
          [y \in 1..MaxYears |-> YearPage(y)],
          [n \in UNION {Range(YearPage(y)) : y \in 1..MaxYears} |-> 1],
          <<>>)

SpecYears == InitYears /\ [][Next]_vars

\* The same, with the main process and the pool workers scheduled fairly: as
\* long as some step of the program can be taken, one is taken.
SpecYearsFair == InitYears /\ [][Next]_vars /\ WF_vars(Next)

\* The pipeline on one year whose page lists MaxPoolFiles archives, more than
\* the pool has workers; an earlier run has recorded all of them but the j-th.
PoolPage == [k \in 1..MaxPoolFiles |-> Href(1, k)]

InitPool ==
    \E j \in 1..MaxPoolFiles :
        Start([year_start |-> 1, year_end |-> 1, resume_from |-> NoResume],
              [y \in {1} |-> PoolPage],
              [n \in Range(PoolPage) |-> 1],
              SubSeq(PoolPage, 1, j - 1) \o SubSeq(PoolPage, j + 1, MaxPoolFiles))

SpecPool == InitPool /\ [][Next]_vars

\* The program run MaxRuns times on one year whose page lists an archive of two
\* content files and an archive of one, starting without a ledger file.
InitRetry ==
    Start([year_start |-> 1, year_end |-> 1, resume_from |-> NoResume],
          [y \in {1} |-> YearPage(y)],
          [n \in Range(YearPage(1)) |-> IF n = Href(1, 1) THEN 2 ELSE 1],
          <<>>)

SpecRetry == InitRetry /\ [][NextRerun]_vars

\* The program run MaxRuns times on one year whose page has MaxFiles links to
\* the archives of Page(1), any of them possibly linked more than once.
InitRepeats ==
    \E page \in [1..MaxFiles -> Range(Page(1))] :
        Start([year_start |-> 1, year_end |-> 1, resume_from |-> NoResume],
              [y \in {1} |-> page],
              [n \in Range(Page(1)) |-> 1],
              <<>>)

SpecRepeats == InitRepeats /\ [][NextRerun]_vars

-----------------------------------------------------------------------------
(* Properties                                                              *)

\* The archive names the listing of year y holds.
Listed(y) == {LastSegment(u) : u \in Range(ZipLinks(y, web[y]))}

\* process_file is over for unit t and was not a skip.
Ended(t) == unit[t].pc \in {"returned", "raised"}

\* The unit got through mark_file_processed.
Recorded(t) ==
    /\ ~ unit[t].failed
    /\ unit[t].pc \in {"exists_zip", "remove_zip", "clean_list", "clean_remove",
                       "rmdir", "returned", "raised"}

\* The state of the per-archive state machine a process_file call is in.
StateOf(u) ==
    CASE u.pc = "skipped" -> "SKIPPED"
      [] u.pc # "skipped" /\ u.failed -> "FAILED"
      [] ~ u.failed /\ u.pc \in {"queued", "check", "makedirs", "download"} -> "PENDING"
      [] ~ u.failed /\ u.pc \in {"unzip", "extract"} -> "FETCHED"
      [] ~ u.failed /\ u.pc \in {"listdir", "upload"} -> "EXTRACTED"
      [] ~ u.failed /\ u.pc \in {"mark_open", "mark_write"} -> "PUBLISHED"
      [] OTHER -> "RECORDED"

PoolDrained ==
    \/ phase \in {"done", "crashed"}
    \/ phase = "pool" /\ \A t \in Units : unit[t].pc \in Terminal

\* C1: an archive id is in the ledger only if every content file of the
\* archive is an object of the bucket under raw_data/<year>/<file>.
C1_LedgerOnlyAfterFullIngestion ==
    \A y \in DOMAIN web : \A n \in Listed(y) :
        is_file_processed(n) => \A f \in Members(n) : <<y, f>> \in bucket

\* C2: no exception leaves process_file, and process_year and the year loop
\* never stop on one.
C2_NoExceptionEscapes ==
    /\ \A t \in Units : unit[t].pc # "raised"
    /\ phase # "crashed"

\* C3: once process_file is over for a unit that was not skipped, its scratch
\* archive file is gone, and its scratch directory or a file it extracted is
\* still there only as long as another unit of the pool has not ended.
C3_ScratchRemoved ==
    \A t \in Units :
        Ended(t) =>
            /\ zip_name(t) \notin DOMAIN cwd
            /\ (unzipped[year].exists \/ Members(zip_name(t)) \cap unzipped[year].files # {})
                  => \E s \in Units : s # t /\ unit[s].pc \notin Terminal

\* C4: a unit in which the download, the extraction or an upload raised has
\* not put its id into the ledger (no other unit works on the same id).
C4_FailedNeverAppends ==
    \A t \in Units :
        (unit[t].failed /\ \A s \in Units : s # t => zip_name(s) # zip_name(t))
            => ~ is_file_processed(zip_name(t))

C4_Witness ==
    \E t \in Units : \E s \in Units :
        /\ unit[t].failed /\ unit[t].faulted /\ Ended(t)
        /\ Recorded(s) /\ Ended(s)

\* C5: with the listing unchanged and no external failure at all, the second
\* run of the program calls download_file not once.
C5_SecondRunFetchesNothing ==
    (run >= 2 /\ faults = 0) => fetches = 0

\* C6: whatever the interleaving of the appends, the ledger holds exactly the
\* ids whose append has returned, one whole line each: none lost, none twice,
\* no line torn or joined to another.
C6_ConcurrentAppendsKeepEveryLine ==
    LET lines == splitlines(ledger.text)
    IN  /\ \A n \in marked : \E i \in DOMAIN lines : lines[i] = n
        /\ \A i \in DOMAIN lines : lines[i] \in marked
        /\ Len(lines) = Cardinality(marked)
        /\ ledger.text # <<>> => ledger.text[Len(ledger.text)] = NL

\* Two units had the ledger open at the same time and both have written.
C6_Witness ==
    \E t \in Units : \E s \in Units :
        /\ t # s
        /\ Recorded(t) /\ Recorded(s)
        /\ unit[t].fpos = unit[s].fpos
        /\ zip_name(t) # zip_name(s)

\* C7: when the pool has drained, every unit that met no external failure is
\* in the ledger, and the run has not stopped on an exception.
C7_SiblingsStillRecorded ==
    PoolDrained =>
        /\ \A t \in Units : ~ unit[t].faulted => is_file_processed(zip_name(t))
        /\ phase # "crashed"

\* C8: two units at work at the same time have different scratch paths, and a
\* unit uploads and deletes only content files of its own archive.
C8_ScratchExclusive ==
    /\ \A t \in Units : \A s \in Units :
          (t # s /\ UsesScratch(t) /\ UsesScratch(s)) =>
              /\ local_zip_path(t) # local_zip_path(s)
              /\ extract_folder(t) # extract_folder(s)
    /\ \A t \in Units :
          unit[t].pc \in {"upload", "clean_remove"} => unit[t].iter \subseteq Members(zip_name(t))

\* C9: an id whose mark_file_processed has returned is reported processed by
\* every later is_file_processed, in this run and the next; without a ledger
\* file no id is reported processed.
C9_LedgerRoundTrip ==
    /\ \A n \in marked : is_file_processed(n)
    /\ ~ ledger.exists => \A y \in DOMAIN web : \A n \in Listed(y) : ~ is_file_processed(n)

\* A unit found, in the file, an id an earlier run had appended, after a unit
\* of this run had appended its own.
C9_Witness ==
    /\ \E t \in Units : unit[t].pc = "skipped" /\ zip_name(t) \in marked
    /\ \E s \in Units : Recorded(s) /\ Ended(s)

\* sub occurs in s
OccursIn(sub, s) ==
    \E k \in 0..Len(s) : k + Len(sub) <= Len(s) /\ SubSeq(s, k + 1, k + Len(sub)) = sub

\* The part of a link after its last "/"
FileName(u) ==
    LET k == CHOOSE j \in 0..Len(u) :
                 /\ j = 0 \/ u[j] = "/"
                 /\ \A i \in (j + 1)..Len(u) : u[i] # "/"
    IN  SubSeq(u, k + 1, Len(u))

\* a sorts strictly after b: they differ first at a place where a has the greater
\* character, or b is a proper prefix of a.
LexAfter(a, b) ==
    \E k \in 0..Len(b) :
        /\ k <= Len(a)
        /\ SubSeq(a, 1, k) = SubSeq(b, 1, k)
        /\ \/ k = Len(b) /\ Len(a) > k
           \/ k < Len(a) /\ k < Len(b) /\ Ord(a[k + 1]) > Ord(b[k + 1])

C11_YearsSequential ==
    [][ /\ year' # year =>
             /\ year' = year + 1
             /\ \A t \in Units : unit[t].pc \in Terminal
             /\ phase' = "list"
        /\ phase' = "list" => \A t \in DOMAIN unit' : unit'[t].pc \in Terminal
        /\ file_urls' # file_urls => \A t \in Units : ~ InFlight(t)
        /\ \A t \in DOMAIN unit' :
              (unit'[t].pc \notin Terminal \cup {"queued"}) =>
                  StartsWith(file_urls'[t], BASE_URL(year')) ]_vars

\* A unit of the second year is at work after both units of the first year ended.
C11_Witness ==
    /\ year = args.year_start + 1
    /\ phase = "pool"
    /\ \E t \in Units : InFlight(t)
    /\ Cardinality(marked) >= 1

\* C12: at no time are more than 4 process_file calls in progress, however many
\* archives the year's page lists.
C12_AtMostFourInFlight ==
    Cardinality({t \in Units : InFlight(t)}) <= 4

\* Four calls are in progress and a fifth archive waits for a free worker.
C12_Witness ==
    /\ Cardinality({t \in Units : InFlight(t)}) = 4
    /\ \E t \in Units : unit[t].pc = "queued"
    /\ \E t \in Units : UsesScratch(t)

\* h ends in the four characters ".zip"
HasZipEnding(h) ==
    /\ Len(h) >= 4
    /\ h[Len(h) - 3] = "." /\ h[Len(h) - 2] = "z" /\ h[Len(h) - 1] = "i" /\ h[Len(h)] = "p"

\* C13: what list_files returns is, link by link and in page order, the per-year
\* URL followed by a hyperlink target of the page that ends in ".zip"; no target
\* with another ending is among them, and unless the resume filter of C10
\* applies to the year every target that ends in ".zip" is.
C13_ListingSelection ==
    phase = "pool" =>
        LET page == web[year]
            r == args.resume_from
            zips == {i \in DOMAIN page : HasZipEnding(page[i])}
        IN  \E pick \in [DOMAIN file_urls -> zips] :
                /\ \A i \in DOMAIN file_urls : \A j \in DOMAIN file_urls :
                       i < j => pick[i] < pick[j]
                /\ \A i \in DOMAIN file_urls :
                       file_urls[i] = <<"/", "a", "/">> \o IntToStr(year) \o <<"/">> \o page[pick[i]]
                /\ ~ (r.given /\ OccursIn(IntToStr(year), r.val)) =>
                       {pick[i] : i \in DOMAIN file_urls} = zips

\* A page with two archive links followed by another link gave the two archive
\* links, in page order.
C13_Witness ==
    /\ phase = "pool"
    /\ ~ args.resume_from.given
    /\ Len(web[year]) = 3
    /\ HasZipEnding(web[year][1]) /\ HasZipEnding(web[year][2])
    /\ web[year][1] # web[year][2]
    /\ ~ HasZipEnding(web[year][3])
    /\ Len(file_urls) = 2
    /\ FileName(file_urls[1]) = web[year][1]
    /\ FileName(file_urls[2]) = web[year][2]

\* The moves the per-archive state machine allows.
Allowed(from, to) ==
    \/ from = "PENDING" /\ to \in {"FETCHED", "SKIPPED", "FAILED"}
    \/ from = "FETCHED" /\ to \in {"EXTRACTED", "FAILED"}
    \/ from = "EXTRACTED" /\ to \in {"PUBLISHED", "FAILED"}
    \/ from = "PUBLISHED" /\ to \in {"RECORDED", "FAILED"}

\* Every unit stays in its state or makes an allowed move; RECORDED, FAILED and
\* SKIPPED are left by no step.
C14_MovesAllowed ==
    \A t \in Units \cap DOMAIN unit' :
        file_urls' = file_urls =>
            \/ StateOf(unit'[t]) = StateOf(unit[t])
            \/ Allowed(StateOf(unit[t]), StateOf(unit'[t]))

\* A unit starts to extract only with its downloaded archive file on disk, and
\* an object is put into the bucket only by a unit whose extraction is over.
C14_ExtractAndUploadInOrder ==
    /\ \A t \in Units \cap DOMAIN unit' :
          (file_urls' = file_urls /\ unit[t].pc # "extract" /\ unit'[t].pc = "extract")
              => unit[t].pc = "unzip" /\ zip_name(t) \in DOMAIN cwd
    /\ bucket' # bucket =>
          \E t \in Units : unit[t].pc = "upload" /\ unit'[t].pc # "raised"

\* When a unit appends its id to the ledger, every content file of its archive
\* has been uploaded.
C14_AppendAfterUploads ==
    \A t \in Units \cap DOMAIN unit' :
        (file_urls' = file_urls /\ unit[t].pc = "mark_write" /\ unit'[t].pc # "mark_write")
            => \A f \in Members(zip_name(t)) : <<year, f>> \in bucket

\* C14: a unit moves only along PENDING -> FETCHED -> EXTRACTED -> PUBLISHED ->
\* RECORDED or to FAILED from a state that is not terminal; it extracts only
\* after its download, uploads only after its extraction, and appends its id
\* only after the upload of every file it extracted.
C14_StateMachineOrder ==
    [][C14_MovesAllowed /\ C14_ExtractAndUploadInOrder /\ C14_AppendAfterUploads]_vars

\* The order of the statements alone, without what the appended id stands for.
C14_ControlFlowOrder ==
    [][C14_MovesAllowed /\ C14_ExtractAndUploadInOrder]_vars

\* C15: a process_file call that finds its id in the ledger ends SKIPPED in the
\* very step of the check, and that step changes neither the ledger, nor the
\* scratch files and directories, nor the bucket, nor the count of downloads;
\* a skipped unit takes no further step.
C15_SkipIsNoOp ==
    [][\A t \in Units \cap DOMAIN unit' :
          file_urls' = file_urls =>
              /\ (unit[t].pc = "check" /\ unit'[t].pc # "check" /\ is_file_processed(zip_name(t)))
                    => /\ unit'[t].pc = "skipped"
                       /\ UNCHANGED <<ledger, cwd, unzipped, bucket, fetches, marked>>
              /\ unit'[t].pc = "skipped" =>
                    /\ unit[t].pc \in {"check", "skipped"}
                    /\ unit[t].pc = "check" =>
                          /\ is_file_processed(zip_name(t))
                          /\ UNCHANGED <<ledger, cwd, unzipped, bucket, fetches, marked>>
              /\ unit[t].pc = "skipped" => unit'[t] = unit[t]]_vars

\* One unit was skipped on an id of the ledger while no scratch directory
\* existed, and there is none after the skip.
C15_Witness ==
    /\ \E t \in Units : unit[t].pc = "skipped" /\ is_file_processed(zip_name(t))
    /\ \A t \in Units : unit[t].pc \in {"skipped", "queued"}
    /\ ~ unzipped[year].exists
    /\ cwd = <<>>
    /\ fetches = 0

\* The archive's upload loop raised part-way in an earlier run.
PartlyPublishedBefore(n) == \E r \in 1..(run - 1) : <<r, n>> \in partial

\* C16, the failed run: an archive whose upload loop raised part-way has
\* content in the bucket and, in that run, no line in the ledger.
C16_PartialPublishNotRecorded ==
    \A e \in partial :
        /\ \E f \in Members(e[2]) : <<year, f>> \in bucket
        /\ e[1] = run => ~ is_file_processed(e[2])

\* C16, the retry: when a later run has worked on such an archive again and
\* nothing failed in that unit, the id is in the ledger and every content file
\* of the archive is in the bucket.
C16_RetryPublishesAll ==
    (run >= 2 /\ PoolDrained) =>
        \A t \in Units :
            (PartlyPublishedBefore(zip_name(t)) /\ unit[t].pc # "skipped"
               /\ ~ unit[t].failed /\ ~ unit[t].faulted)
                => /\ is_file_processed(zip_name(t))
                   /\ \A f \in Members(zip_name(t)) : <<year, f>> \in bucket

\* C16: objects once published stay in the bucket; an archive whose k-th
\* upload failed is not recorded in that run; a later run that works on it
\* without failure publishes every content file and records the id.
C16_PartialPublishAndRetry ==
    /\ [](C16_PartialPublishNotRecorded /\ C16_RetryPublishesAll)
    /\ [][bucket \subseteq bucket']_vars

\* C17: under fair scheduling the run gets to the end of the last year, with
\* every unit of work ended as skipped, recorded or failed.
C17_RunCompletesAllYears ==
    <>(/\ phase = "done"
       /\ year = args.year_end
       /\ \A t \in Units : unit[t].pc \in {"skipped", "returned"})

\* C18: the step in which a unit's download fails takes the unit to FAILED, and
\* no unit is ever about to open or extract a scratch archive file that is not
\* the whole archive.
C18_FailedFetchIsFatal ==
    /\ [][\A t \in Units \cap DOMAIN unit' :
            (file_urls' = file_urls /\ unit[t].pc = "download" /\ faults' # faults)
                => StateOf(unit'[t]) = "FAILED"]_vars
    /\ [](\A t \in Units :
            unit[t].pc \in {"unzip", "extract"} =>
                zip_name(t) \in DOMAIN cwd /\ cwd[zip_name(t)] = "good")

\* The unit has passed the ledger check and process_file is not over.
PastCheck(t) == InFlight(t) /\ unit[t].pc # "check"

\* C19: no id has two lines in the ledger, and no two units at work on the
\* same id are past the ledger check at the same time.
C19_NoDuplicateLedgerIds ==
    LET lines == splitlines(ledger.text)
    IN  /\ \A i \in DOMAIN lines : \A j \in DOMAIN lines : i # j => lines[i] # lines[j]
        /\ \A t \in Units : \A s \in Units :
              (t # s /\ zip_name(t) = zip_name(s)) => ~ (PastCheck(t) /\ PastCheck(s))

====
